---------------------------- MODULE Spec2Model ----------------------------
(***************************************************************************)
(* Model of the ImageDistortionCorrector component                         *)
(* (src/frontend/src/utils/api.js, lines 96-537) and of the client helpers *)
(* it calls (lines 7-82).  The React state of the component is the state   *)
(* of the machine; every event handler is one action.  A handler runs to   *)
(* completion and the component re-renders before the next event is        *)
(* handled, so a handler always reads the current state.  The two awaited  *)
(* requests (upload, process) are split into the step that issues the      *)
(* request and the step that handles its response or failure.              *)
(*                                                                         *)
(* Numbers are exact rationals [num, den] in lowest terms: the code's      *)
(* coordinate arithmetic is multiplication by a quotient of two sizes.     *)
(***************************************************************************)
EXTENDS Integers, Sequences, FiniteSets

VARIABLES
    imageId,            \* useState(null), line 97
    originalImageUrl,   \* useState(null), line 98
    processedImageUrl,  \* useState(null), line 99
    cornerPoints,       \* useState([]), line 100
    isUploading,        \* useState(false), line 101
    isProcessing,       \* useState(false), line 102
    draggedPoint,       \* useState(null), line 103
    canvasSize,         \* useState({width: 0, height: 0}), line 104
    imageSize,          \* useState({width: 0, height: 0}), line 105
    uploadRequests,     \* upload requests awaiting their response (axios.post, line 12)
    processRequests,    \* process requests awaiting their response (axios.post, line 29)
    toast,              \* the notification the last handled event emitted
    lastEvent,          \* the event handled last
    probe               \* the Coordinate Mapper applied to one input (SpecMapper)

vars == <<imageId, originalImageUrl, processedImageUrl, cornerPoints, isUploading,
          isProcessing, draggedPoint, canvasSize, imageSize, uploadRequests,
          processRequests, toast, lastEvent, probe>>

-----------------------------------------------------------------------------
(* Bounds of the model *)

\* The Coordinate Mapper is probed with coordinates 0..MaxCoord and with
\* sizes 0..MaxSize in each of the four dimensions (SpecMapper).
MaxCoord == 2

MaxSize == 2

\* Image ids the store may return are 1..MaxImageId.
MaxImageId == 1

\* File validation is probed with sizes up to MaxDelta bytes below and above
\* the size limit (SpecValidate).
MaxDelta == 3

\* The perspective correction is probed with source points whose x is
\* 0..MaxSource (SpecTransform).
MaxSource == 3

-----------------------------------------------------------------------------
(* Values *)

\* null for imageId (line 97)
NoImage == 0

\* null for draggedPoint (line 103)
Null == -1

\* the pointId a handler receives when it is called with the event alone
Undefined == -2

\* null for originalImageUrl / processedImageUrl (lines 98-99)
NullUrl == [imageId |-> NoImage, type |-> "null"]

\* no toast() call in the handler
NoToast == "none"

ImageIds == 1..MaxImageId

\* a capacity one too large
MaxCornersOffByOne == 4 + 1

\* the capacity of the corner set (lines 202, 413, 456)
MaxCorners == 4

-----------------------------------------------------------------------------
(* Exact arithmetic on JS numbers *)

RECURSIVE GCD(_, _)
GCD(a, b) == IF b = 0 THEN a ELSE GCD(b, a % b)

\* n / d in lowest terms, d > 0, n >= 0
Rat(n, d) == LET g == GCD(n, d) IN [num |-> n \div g, den |-> d \div g]

FromInt(n) == Rat(n, 1)

RatMul(r, s) == Rat(r.num * s.num, r.den * s.den)

Zero == FromInt(0)

\* r < n for a rational r and an integer n
RatLess(r, n) == r.num < n * r.den

-----------------------------------------------------------------------------
(* Client helpers, lines 65-82 *)

getImageUrl(id, type) == [imageId |-> id, type |-> type]

maxSize == 10 * 1024 * 1024

validTypes == {"image/jpeg", "image/jpg", "image/png"}

\* a validation that also rejects a file of exactly the limit
validateImageFileInclusive(file) ==
    IF file.type \notin validTypes THEN "InvalidFormat"
    ELSE IF file.size >= maxSize THEN "FileTooLarge"
    ELSE "ok"

\* "ok" for `return true`, else the error thrown
validateImageFile(file) ==
    IF file.type \notin validTypes THEN "InvalidFormat"
    ELSE IF file.size > maxSize THEN "FileTooLarge"
    ELSE "ok"

\* validateImageFormat of the mock helpers (src/unnamed/part_000, lines 67-80)
validateImageFormat(file) ==
    IF file.type \notin {"image/jpeg", "image/jpg", "image/png"}
    THEN "InvalidFormat"
    ELSE IF file.size > 10 * 1024 * 1024 THEN "FileTooLarge"
    ELSE "ok"

-----------------------------------------------------------------------------
(* Coordinate Mapper, lines 175-199 *)

\* the conversion without the scaling
convertToImageCoordinatesNoScale(canvasX, canvasY, cs, is) ==
    [x |-> canvasX, y |-> canvasY]

convertToImageCoordinates(canvasX, canvasY, cs, is) ==
    IF cs.width = 0 \/ cs.height = 0 THEN [x |-> canvasX, y |-> canvasY]
    ELSE LET scaleX == Rat(is.width, cs.width)
             scaleY == Rat(is.height, cs.height)
         IN  [x |-> RatMul(canvasX, scaleX), y |-> RatMul(canvasY, scaleY)]

\* the conversion with the two scales exchanged
convertToCanvasCoordinatesSwapped(imageX, imageY, cs, is) ==
    IF is.width = 0 \/ is.height = 0 THEN [x |-> imageX, y |-> imageY]
    ELSE LET scaleX == Rat(cs.width, is.width)
             scaleY == Rat(cs.height, is.height)
         IN  [x |-> RatMul(imageX, scaleY), y |-> RatMul(imageY, scaleX)]

convertToCanvasCoordinates(imageX, imageY, cs, is) ==
    IF is.width = 0 \/ is.height = 0 THEN [x |-> imageX, y |-> imageY]
    ELSE LET scaleX == Rat(cs.width, is.width)
             scaleY == Rat(cs.height, is.height)
         IN  [x |-> RatMul(imageX, scaleX), y |-> RatMul(imageY, scaleY)]

-----------------------------------------------------------------------------
(* Inputs of the environment *)

\* what img.getBoundingClientRect() measures (line 152)
Rects == {[width |-> 4, height |-> 4], [width |-> 8, height |-> 4]}

\* naturalWidth x naturalHeight of a loaded image (line 165)
NaturalSizes == {[width |-> 2, height |-> 2]}

\* event.target.files[0] (line 112)
Files == [type : validTypes \cup {"image/gif"}, size : {maxSize, maxSize + 1}]

\* Pointer positions relative to the canvas (lines 204-207).  Once the canvas
\* has been sized (lines 153-156) a position on it lies inside that size.
\* where the user clicks, and where the pointer moves to
ClickPointer == {<<1, 2>>}

MovePointer == {<<1, 2>>, <<2, 1>>}

Positions ==
    IF canvasSize.width > 0 /\ canvasSize.height > 0
    THEN {p \in MovePointer : p[1] < canvasSize.width /\ p[2] < canvasSize.height}
    ELSE MovePointer

Ev(type, x, y, s) == [type |-> type, x |-> x, y |-> y, s |-> s]

NoSize == [width |-> 0, height |-> 0]

NoPoint == [x |-> Zero, y |-> Zero]

NoProbe == [pc |-> "off", x |-> 0, y |-> 0, cs |-> NoSize, is |-> NoSize,
            image |-> NoPoint, canvas |-> NoPoint]

-----------------------------------------------------------------------------
(* Initial state: the useState initialisers, lines 97-105 *)

Init ==
    /\ imageId = NoImage
    /\ originalImageUrl = NullUrl
    /\ processedImageUrl = NullUrl
    /\ cornerPoints = <<>>
    /\ isUploading = FALSE
    /\ isProcessing = FALSE
    /\ draggedPoint = Null
    /\ canvasSize = [width |-> 0, height |-> 0]
    /\ imageSize = [width |-> 0, height |-> 0]
    /\ uploadRequests = <<>>
    /\ processRequests = <<>>
    /\ toast = NoToast
    /\ lastEvent = Ev("init", 0, 0, "")
    /\ probe = NoProbe

-----------------------------------------------------------------------------
(* What is rendered, lines 355-425 and 453-476 *)

\* the Upload Section with its file input (lines 355, 364)
UploadControlEnabled == originalImageUrl = NullUrl /\ ~isUploading

\* the image panel: img, canvas, point markers, buttons (line 388)
PanelRendered == originalImageUrl # NullUrl

\* style pointerEvents of the canvas (line 413)
CanvasPointerEvents == Len(cornerPoints) < MaxCorners

\* a Correct Distortion button that is disabled by the count alone
correctButtonIgnoresProcessing ==
    PanelRendered /\ Len(cornerPoints) = MaxCorners

\* the Correct Distortion button (line 456)
CorrectButtonEnabled ==
    PanelRendered /\ ~(Len(cornerPoints) # MaxCorners \/ isProcessing)

Ids(points) == {points[i].id : i \in DOMAIN points}

RemoveAt(q, i) == SubSeq(q, 1, i - 1) \o SubSeq(q, i + 1, Len(q))

\* The requests awaiting their response keep, next to what was sent, a mark
\* "superseded" that is not sent: it tells whether the selection was reset or
\* an image was loaded after the request was issued.  No line of the component
\* reads such a mark (lines 274-281 use the response whatever happened since).
Supersede(requests) ==
    [i \in DOMAIN requests |-> [requests[i] EXCEPT !.superseded = TRUE]]

-----------------------------------------------------------------------------
(* handleImageUpload, lines 111-144 *)

\* a handler that posts the file before it validates it
selectFileUploadFirst(file) ==
    /\ UploadControlEnabled
    /\ lastEvent' = Ev("selectFile", file.size, 0, file.type)
    /\ isUploading' = TRUE
    /\ uploadRequests' = Append(uploadRequests, file)
    /\ toast' = IF validateImageFile(file) = "ok" THEN NoToast
                ELSE "Upload failed"
    /\ UNCHANGED <<imageId, originalImageUrl, processedImageUrl, cornerPoints,
                   isProcessing, draggedPoint, canvasSize, imageSize,
                   processRequests, probe>>

\* lines 112-122 and, when validation throws, 135-143
SelectFile(file) ==
    /\ UploadControlEnabled
    /\ lastEvent' = Ev("selectFile", file.size, 0, file.type)
    /\ IF validateImageFile(file) = "ok"
       THEN /\ isUploading' = TRUE
            /\ uploadRequests' = Append(uploadRequests, file)
            /\ toast' = NoToast
       ELSE /\ isUploading' = FALSE
            /\ uploadRequests' = uploadRequests
            /\ toast' = "Upload failed"
    /\ UNCHANGED <<imageId, originalImageUrl, processedImageUrl, cornerPoints,
                   isProcessing, draggedPoint, canvasSize, imageSize,
                   processRequests, probe>>

uploadSucceededKeepId(id) ==
    /\ uploadRequests # <<>>
    /\ uploadRequests' = Tail(uploadRequests)
    /\ lastEvent' = Ev("uploadOk", id, 0, "")
    /\ imageId' = imageId
    /\ originalImageUrl' = getImageUrl(id, "original")
    /\ cornerPoints' = <<>>
    /\ processedImageUrl' = NullUrl
    /\ toast' = "Image uploaded successfully!"
    /\ isUploading' = FALSE
    /\ UNCHANGED <<isProcessing, draggedPoint, canvasSize, imageSize,
                   processRequests, probe>>

\* the upload resolved with result.image_id = id: lines 124-133, 142
UploadSucceeded(id) ==
    /\ uploadRequests # <<>>
    /\ uploadRequests' = Tail(uploadRequests)
    /\ lastEvent' = Ev("uploadOk", id, 0, "")
    /\ imageId' = id
    /\ originalImageUrl' = getImageUrl(id, "original")
    /\ cornerPoints' = <<>>
    /\ processedImageUrl' = NullUrl
    /\ toast' = "Image uploaded successfully!"
    /\ isUploading' = FALSE
    /\ processRequests' = Supersede(processRequests)
    /\ UNCHANGED <<isProcessing, draggedPoint, canvasSize, imageSize, probe>>

\* a failure path without the finally of line 142
uploadFailedKeepsFlag ==
    /\ uploadRequests # <<>>
    /\ uploadRequests' = Tail(uploadRequests)
    /\ lastEvent' = Ev("uploadFailed", 0, 0, "")
    /\ toast' = "Upload failed"
    /\ UNCHANGED <<imageId, originalImageUrl, processedImageUrl, cornerPoints,
                   isUploading, isProcessing, draggedPoint, canvasSize,
                   imageSize, processRequests, probe>>

\* a failure path that leaves the preview of the file in place
uploadFailedKeepsPreview ==
    /\ uploadRequests # <<>>
    /\ uploadRequests' = Tail(uploadRequests)
    /\ lastEvent' = Ev("uploadFailed", 0, 0, "")
    /\ originalImageUrl' = getImageUrl(imageId, "original")
    /\ toast' = "Upload failed"
    /\ isUploading' = FALSE
    /\ UNCHANGED <<imageId, processedImageUrl, cornerPoints,
                   isProcessing, draggedPoint, canvasSize, imageSize,
                   processRequests, probe>>

\* a failure path that posts the file again
uploadFailedRetry ==
    /\ uploadRequests # <<>>
    /\ uploadRequests' = Append(Tail(uploadRequests), Head(uploadRequests))
    /\ lastEvent' = Ev("uploadFailed", 0, 0, "")
    /\ toast' = NoToast
    /\ isUploading' = TRUE
    /\ UNCHANGED <<imageId, originalImageUrl, processedImageUrl, cornerPoints,
                   isProcessing, draggedPoint, canvasSize, imageSize,
                   processRequests, probe>>

\* uploadImage threw (lines 19-24): lines 135-143
UploadFailed ==
    /\ uploadRequests # <<>>
    /\ uploadRequests' = Tail(uploadRequests)
    /\ lastEvent' = Ev("uploadFailed", 0, 0, "")
    /\ toast' = "Upload failed"
    /\ isUploading' = FALSE
    /\ UNCHANGED <<imageId, originalImageUrl, processedImageUrl, cornerPoints,
                   isProcessing, draggedPoint, canvasSize, imageSize,
                   processRequests, probe>>

-----------------------------------------------------------------------------
(* Layout: lines 146-173 and the effect of lines 320-334 *)

\* an effect that leaves the display coordinates as they were
updateDisplayCoordinatesStale(points, cs, is) == points

\* The effect that runs after a render in which canvasSize or
\* convertToCanvasCoordinates changed (lines 321-334).
updateDisplayCoordinates(points, cs, is) ==
    IF Len(points) > 0 /\ cs.width > 0
    THEN [i \in DOMAIN points |->
            LET displayCoords ==
                    convertToCanvasCoordinates(points[i].x, points[i].y, cs, is)
            IN  [points[i] EXCEPT !.displayX = displayCoords.x,
                                  !.displayY = displayCoords.y]]
    ELSE points

\* onLoad of the img (lines 162-168, 402), then the effect
handleImageLoad(natural, rect) ==
    /\ PanelRendered
    /\ imageSize.width = 0
    /\ lastEvent' = Ev("imageLoad", 0, 0, "")
    /\ imageSize' = natural
    /\ canvasSize' = rect
    /\ cornerPoints' = updateDisplayCoordinates(cornerPoints, rect, natural)
    /\ toast' = NoToast
    /\ UNCHANGED <<imageId, originalImageUrl, processedImageUrl, isUploading,
                   isProcessing, draggedPoint, uploadRequests, processRequests,
                   probe>>

\* the window's resize event (lines 146-160, 170-173), then the effect
updateCanvasSize(rect) ==
    /\ PanelRendered
    /\ lastEvent' = Ev("resize", rect.width, rect.height, "")
    /\ canvasSize' = rect
    /\ cornerPoints' = updateDisplayCoordinates(cornerPoints, rect, imageSize)
    /\ toast' = NoToast
    /\ UNCHANGED <<imageId, originalImageUrl, processedImageUrl, isUploading,
                   isProcessing, draggedPoint, imageSize, uploadRequests,
                   processRequests, probe>>

-----------------------------------------------------------------------------
(* Corner set: lines 201-254 and the wiring of lines 407-425 *)

\* the point appended by a click at (canvasX, canvasY): lines 210-218
newPoint(canvasX, canvasY) ==
    LET imageCoords ==
            convertToImageCoordinates(FromInt(canvasX), FromInt(canvasY),
                                      canvasSize, imageSize)
    IN  [x |-> imageCoords.x, y |-> imageCoords.y, id |-> Len(cornerPoints),
         displayX |-> FromInt(canvasX), displayY |-> FromInt(canvasY)]

\* the notification checked one click late
clickToastLate(count) ==
    IF count = 4 THEN "All corners selected!" ELSE NoToast

\* the notification of a click made with count points stored: lines 222-227
clickToast(count) ==
    IF count = 3 THEN "All corners selected!" ELSE NoToast

\* a click at a position of the canvas area: onClick (line 409) reaches
\* handleCanvasClick (lines 201-228) when the canvas is rendered and takes
\* pointer events
handleCanvasClick(canvasX, canvasY) ==
    /\ <<canvasX, canvasY>> \in Positions
    /\ lastEvent' = Ev("click", canvasX, canvasY, "")
    /\ IF PanelRendered /\ CanvasPointerEvents
          /\ ~(originalImageUrl = NullUrl \/ Len(cornerPoints) >= MaxCorners)
       THEN /\ cornerPoints' = Append(cornerPoints, newPoint(canvasX, canvasY))
            /\ toast' = clickToast(Len(cornerPoints))
       ELSE /\ cornerPoints' = cornerPoints
            /\ toast' = NoToast
    /\ UNCHANGED <<imageId, originalImageUrl, processedImageUrl, isUploading,
                   isProcessing, draggedPoint, canvasSize, imageSize,
                   uploadRequests, processRequests, probe>>

\* onMouseDown of the marker of the point with this id (line 422)
beginDrag(id) ==
    /\ PanelRendered
    /\ id \in Ids(cornerPoints)
    /\ lastEvent' = Ev("mouseDown", id, 0, "")
    /\ draggedPoint' = id
    /\ toast' = NoToast
    /\ UNCHANGED <<imageId, originalImageUrl, processedImageUrl, cornerPoints,
                   isUploading, isProcessing, canvasSize, imageSize,
                   uploadRequests, processRequests, probe>>

\* a drag that takes the recorded id for the missing argument and moves every
\* point (the id test of line 243 dropped)
handlePointDragAll(points, pointId, canvasX, canvasY) ==
    IF draggedPoint = Null THEN points
    ELSE LET imageCoords ==
                 convertToImageCoordinates(FromInt(canvasX), FromInt(canvasY),
                                           canvasSize, imageSize)
         IN  [i \in DOMAIN points |->
                 [points[i] EXCEPT !.x = imageCoords.x, !.y = imageCoords.y,
                                   !.displayX = FromInt(canvasX),
                                   !.displayY = FromInt(canvasY)]]

\* handlePointDrag(event, pointId), lines 230-254: the corner points it leaves
handlePointDrag(points, pointId, canvasX, canvasY) ==
    IF draggedPoint # pointId THEN points
    ELSE LET imageCoords ==
                 convertToImageCoordinates(FromInt(canvasX), FromInt(canvasY),
                                           canvasSize, imageSize)
         IN  [i \in DOMAIN points |->
                 IF points[i].id = pointId
                 THEN [points[i] EXCEPT !.x = imageCoords.x, !.y = imageCoords.y,
                                        !.displayX = FromInt(canvasX),
                                        !.displayY = FromInt(canvasY)]
                 ELSE points[i]]

\* a pointer move over the canvas area: onMouseMove={handlePointDrag}
\* (line 410) calls the handler with the event alone, so pointId is undefined
dragMove(canvasX, canvasY) ==
    /\ PanelRendered
    /\ <<canvasX, canvasY>> \in Positions
    /\ lastEvent' = Ev("mouseMove", canvasX, canvasY, "")
    /\ cornerPoints' = IF CanvasPointerEvents
                       THEN handlePointDrag(cornerPoints, Undefined, canvasX, canvasY)
                       ELSE cornerPoints
    /\ toast' = NoToast
    /\ UNCHANGED <<imageId, originalImageUrl, processedImageUrl, isUploading,
                   isProcessing, draggedPoint, canvasSize, imageSize,
                   uploadRequests, processRequests, probe>>

\* the pointer released over the canvas area: onMouseUp (line 411) runs when
\* the canvas takes pointer events (line 413)
release ==
    /\ PanelRendered
    /\ lastEvent' = Ev("mouseUp", 0, 0, "")
    /\ draggedPoint' = IF CanvasPointerEvents THEN Null ELSE draggedPoint
    /\ toast' = NoToast
    /\ UNCHANGED <<imageId, originalImageUrl, processedImageUrl, cornerPoints,
                   isUploading, isProcessing, canvasSize, imageSize,
                   uploadRequests, processRequests, probe>>

\* a reset that removes the last point only
resetSelectionLast(s) ==
    [s EXCEPT !.cornerPoints = SubSeq(s.cornerPoints, 1, Len(s.cornerPoints) - 1),
              !.processedImageUrl = NullUrl,
              !.toast = "Selection reset"]

\* a reset that also clears the processing flag
resetSelectionClearsBusy(s) ==
    [s EXCEPT !.cornerPoints = <<>>, !.processedImageUrl = NullUrl,
              !.isProcessing = FALSE, !.toast = "Selection reset"]

\* resetSelection as a function of the component's state, lines 311-318
resetSelection(s) ==
    [s EXCEPT !.cornerPoints = <<>>, !.processedImageUrl = NullUrl,
              !.toast = "Selection reset"]

\* the component's state as one record
Session ==
    [imageId |-> imageId, originalImageUrl |-> originalImageUrl,
     processedImageUrl |-> processedImageUrl, cornerPoints |-> cornerPoints,
     isUploading |-> isUploading, isProcessing |-> isProcessing,
     draggedPoint |-> draggedPoint, canvasSize |-> canvasSize,
     imageSize |-> imageSize, toast |-> toast]

\* the Reset Points button (lines 468-475), rendered with the panel
Reset ==
    /\ PanelRendered
    /\ lastEvent' = Ev("reset", 0, 0, "")
    /\ LET s == resetSelection(Session)
       IN  /\ imageId' = s.imageId
           /\ originalImageUrl' = s.originalImageUrl
           /\ processedImageUrl' = s.processedImageUrl
           /\ cornerPoints' = s.cornerPoints
           /\ isUploading' = s.isUploading
           /\ isProcessing' = s.isProcessing
           /\ draggedPoint' = s.draggedPoint
           /\ canvasSize' = s.canvasSize
           /\ imageSize' = s.imageSize
           /\ toast' = s.toast
    /\ processRequests' = Supersede(processRequests)
    /\ UNCHANGED <<uploadRequests, probe>>

-----------------------------------------------------------------------------
(* processImageDistortion, lines 256-291, and processImage, lines 27-41 *)

\* a request body with the points in the reverse of their order
TransformRequestReversed(id, points) ==
    [image_id |-> id,
     corner_points |-> [i \in DOMAIN points |->
                           [x |-> points[Len(points) + 1 - i].x,
                            y |-> points[Len(points) + 1 - i].y]],
     superseded |-> FALSE]

\* a request body built from the display coordinates of the points
TransformRequestDisplay(id, points) ==
    [image_id |-> id,
     corner_points |-> [i \in DOMAIN points |->
                           [x |-> points[i].displayX, y |-> points[i].displayY]],
     superseded |-> FALSE]

\* what processImage posts (lines 29-32) for the points as stored: the body of
\* the request, lines 267-274
TransformRequest(id, points) ==
    [image_id |-> id,
     corner_points |-> [i \in DOMAIN points |->
                           [x |-> points[i].x, y |-> points[i].y]],
     superseded |-> FALSE]

\* processImageDistortion without its check of the count
processImageDistortionUnchecked ==
    /\ lastEvent' = Ev("correct", 0, 0, "")
    /\ isProcessing' = TRUE
    /\ processRequests' =
           Append(processRequests, TransformRequest(imageId, cornerPoints))
    /\ toast' = NoToast
    /\ UNCHANGED <<imageId, originalImageUrl, processedImageUrl, cornerPoints,
                   isUploading, draggedPoint, canvasSize, imageSize,
                   uploadRequests, probe>>

\* processImageDistortion up to its await: lines 257-274
processImageDistortion ==
    /\ lastEvent' = Ev("correct", 0, 0, "")
    /\ IF Len(cornerPoints) # MaxCorners
       THEN /\ toast' = "Incomplete selection"
            /\ UNCHANGED <<isProcessing, processRequests>>
       ELSE /\ isProcessing' = TRUE
            /\ processRequests' =
                   Append(processRequests,
                          TransformRequest(imageId, cornerPoints))
            /\ toast' = NoToast
    /\ UNCHANGED <<imageId, originalImageUrl, processedImageUrl, cornerPoints,
                   isUploading, draggedPoint, canvasSize, imageSize,
                   uploadRequests, probe>>

\* the Correct Distortion button clicked (line 455)
requestCorrection ==
    /\ CorrectButtonEnabled
    /\ processImageDistortion

\* the response of request i arrived: lines 276-281, 289.  The store answers
\* with the processed variant of the request's image (src/contracts.md, 32-38).
correctionSucceeded(i) ==
    /\ i \in DOMAIN processRequests
    /\ lastEvent' = Ev("correctOk", 0, 0, "")
    /\ processedImageUrl' = getImageUrl(processRequests[i].image_id, "processed")
    /\ toast' = "Image processed successfully!"
    /\ isProcessing' = FALSE
    /\ processRequests' = RemoveAt(processRequests, i)
    /\ UNCHANGED <<imageId, originalImageUrl, cornerPoints, isUploading,
                   draggedPoint, canvasSize, imageSize, uploadRequests, probe>>

\* a failure path that shows a processed image all the same
correctionFailedSetsResult(i) ==
    /\ i \in DOMAIN processRequests
    /\ lastEvent' = Ev("correctFailed", 0, 0, "")
    /\ processedImageUrl' = getImageUrl(processRequests[i].image_id, "processed")
    /\ toast' = "Processing failed"
    /\ isProcessing' = FALSE
    /\ processRequests' = RemoveAt(processRequests, i)
    /\ UNCHANGED <<imageId, originalImageUrl, cornerPoints, isUploading,
                   draggedPoint, canvasSize, imageSize, uploadRequests, probe>>

\* a failure path without the finally of line 288
correctionFailedKeepsFlag(i) ==
    /\ i \in DOMAIN processRequests
    /\ lastEvent' = Ev("correctFailed", 0, 0, "")
    /\ toast' = "Processing failed"
    /\ processRequests' = RemoveAt(processRequests, i)
    /\ UNCHANGED <<imageId, originalImageUrl, processedImageUrl, cornerPoints,
                   isUploading, isProcessing, draggedPoint, canvasSize,
                   imageSize, uploadRequests, probe>>

\* processImage threw for request i (lines 35-40): lines 282-289
correctionFailed(i) ==
    /\ i \in DOMAIN processRequests
    /\ lastEvent' = Ev("correctFailed", 0, 0, "")
    /\ toast' = "Processing failed"
    /\ isProcessing' = FALSE
    /\ processRequests' = RemoveAt(processRequests, i)
    /\ UNCHANGED <<imageId, originalImageUrl, processedImageUrl, cornerPoints,
                   isUploading, draggedPoint, canvasSize, imageSize,
                   uploadRequests, probe>>

\* the Download button (lines 511-517), rendered with a processed image:
\* lines 293-309
handleDownload ==
    /\ PanelRendered
    /\ processedImageUrl # NullUrl
    /\ lastEvent' = Ev("download", 0, 0, "")
    /\ toast' = IF imageId = NoImage THEN NoToast ELSE "Download started!"
    /\ UNCHANGED <<imageId, originalImageUrl, processedImageUrl, cornerPoints,
                   isUploading, isProcessing, draggedPoint, canvasSize,
                   imageSize, uploadRequests, processRequests, probe>>

-----------------------------------------------------------------------------
(* The component *)

Next ==
    \/ \E file \in Files : SelectFile(file)
    \/ \E id \in ImageIds : UploadSucceeded(id)
    \/ UploadFailed
    \/ \E natural \in NaturalSizes, rect \in Rects : handleImageLoad(natural, rect)
    \/ \E rect \in Rects : updateCanvasSize(rect)
    \/ \E p \in ClickPointer : handleCanvasClick(p[1], p[2])
    \/ \E id \in 0..(MaxCorners - 1) : beginDrag(id)
    \/ \E p \in MovePointer : dragMove(p[1], p[2])
    \/ release
    \/ Reset
    \/ requestCorrection
    \/ \E i \in 1..MaxCorners : correctionSucceeded(i)
    \/ \E i \in 1..MaxCorners : correctionFailed(i)
    \/ handleDownload

Spec == Init /\ [][Next]_vars

\* The promise of an issued request settles: axios.post resolves or rejects
\* (lines 12-24 and 29-40), and the handler that awaits it continues.
uploadSettles == (\E id \in ImageIds : UploadSucceeded(id)) \/ UploadFailed

correctionSettles ==
    \E i \in 1..MaxCorners : correctionSucceeded(i) \/ correctionFailed(i)

\* the component with a transport that eventually answers every request
SpecLive ==
    Init /\ [][Next]_vars /\ WF_vars(uploadSettles) /\ WF_vars(correctionSettles)

-----------------------------------------------------------------------------
(* The component with processImageDistortion also called where its button   *)
(* is disabled by the count: what the function's own check of the count     *)
(* (lines 257-264) does can be seen in no step of Spec, because the button   *)
(* (line 456) never calls the function with another count than 4.           *)

callProcessImageDistortion ==
    /\ PanelRendered
    /\ Len(cornerPoints) # MaxCorners
    /\ processImageDistortion

NextDirect == Next \/ callProcessImageDistortion

SpecDirect == Init /\ [][NextDirect]_vars

-----------------------------------------------------------------------------
(* The Coordinate Mapper on its own: convertToImageCoordinates and           *)
(* convertToCanvasCoordinates applied to one position under one pair of      *)
(* sizes.                                                                    *)

Sizes == [width : 0..MaxSize, height : 0..MaxSize]

InitMapper ==
    /\ imageId = NoImage
    /\ originalImageUrl = NullUrl
    /\ processedImageUrl = NullUrl
    /\ cornerPoints = <<>>
    /\ isUploading = FALSE
    /\ isProcessing = FALSE
    /\ draggedPoint = Null
    /\ canvasSize = NoSize
    /\ imageSize = NoSize
    /\ uploadRequests = <<>>
    /\ processRequests = <<>>
    /\ toast = NoToast
    /\ lastEvent = Ev("init", 0, 0, "")
    /\ probe \in [pc : {"input"}, x : 0..MaxCoord, y : 0..MaxCoord, cs : Sizes,
                  is : Sizes, image : {NoPoint}, canvas : {NoPoint}]

Session0 == <<imageId, originalImageUrl, processedImageUrl, cornerPoints,
              isUploading, isProcessing, draggedPoint, canvasSize, imageSize,
              uploadRequests, processRequests, toast, lastEvent>>

\* display space to image space (lines 175-186)
MapToImage ==
    /\ probe.pc = "input"
    /\ probe' = [probe EXCEPT
                    !.pc = "image",
                    !.image = convertToImageCoordinates(
                                  FromInt(probe.x), FromInt(probe.y),
                                  probe.cs, probe.is)]
    /\ UNCHANGED Session0

\* image space back to display space (lines 188-199)
MapToCanvas ==
    /\ probe.pc = "image"
    /\ probe' = [probe EXCEPT
                    !.pc = "canvas",
                    !.canvas = convertToCanvasCoordinates(
                                   probe.image.x, probe.image.y,
                                   probe.cs, probe.is)]
    /\ UNCHANGED Session0

\* image space to display space, the position taken as an image position
MapImageToCanvas ==
    /\ probe.pc = "input"
    /\ probe' = [probe EXCEPT
                    !.pc = "canvasOnly",
                    !.canvas = convertToCanvasCoordinates(
                                   FromInt(probe.x), FromInt(probe.y),
                                   probe.cs, probe.is)]
    /\ UNCHANGED Session0

NextMapper == MapToImage \/ MapToCanvas \/ MapImageToCanvas

SpecMapper == InitMapper /\ [][NextMapper]_vars

-----------------------------------------------------------------------------
(* File validation on its own: validateImageFile and validateImageFormat    *)
(* applied to one file.                                                      *)

MiB == 1024 * 1024

FileTypes == validTypes \cup {"image/gif", "image/webp", "IMAGE/PNG", ""}

FileSizes ==
    {0, 9 * MiB, 11 * MiB} \cup {maxSize + d : d \in (0 - MaxDelta)..MaxDelta}

InitValidate ==
    /\ imageId = NoImage
    /\ originalImageUrl = NullUrl
    /\ processedImageUrl = NullUrl
    /\ cornerPoints = <<>>
    /\ isUploading = FALSE
    /\ isProcessing = FALSE
    /\ draggedPoint = Null
    /\ canvasSize = NoSize
    /\ imageSize = NoSize
    /\ uploadRequests = <<>>
    /\ processRequests = <<>>
    /\ toast = NoToast
    /\ lastEvent = Ev("init", 0, 0, "")
    /\ probe \in [pc : {"file"}, type : FileTypes, size : FileSizes,
                  result : {"none"}]

\* validateImageFile(file), lines 69-82
ValidateFile ==
    /\ probe.pc = "file"
    /\ probe' = [probe EXCEPT
                    !.pc = "validateImageFile",
                    !.result = validateImageFile(
                                   [type |-> probe.type, size |-> probe.size])]
    /\ UNCHANGED Session0

\* validateImageFormat(file), src/unnamed/part_000, lines 67-80
ValidateFormat ==
    /\ probe.pc = "file"
    /\ probe' = [probe EXCEPT
                    !.pc = "validateImageFormat",
                    !.result = validateImageFormat(
                                   [type |-> probe.type, size |-> probe.size])]
    /\ UNCHANGED Session0

NextValidate == ValidateFile \/ ValidateFormat

SpecValidate == InitValidate /\ [][NextValidate]_vars

-----------------------------------------------------------------------------
(* The perspective correction (spec 4.3).  The service that answers          *)
(* POST /process-image (lines 27-41) is not among the sources; it is         *)
(* modelled from the contract: the projective transform M that maps the four *)
(* source points onto the corners (0,0), (W,0), (W,H), (0,H), normalised so  *)
(* that its bottom-right entry is 1, and the rejection of inputs for which   *)
(* no such transform exists.  A matrix is held as three rows of integers, up *)
(* to a common positive factor: the normalised entry is M[i][j] / M[3][3].   *)

Abs(n) == IF n < 0 THEN 0 - n ELSE n

\* the determinant of the matrix whose columns are a, b, c
Det3(a, b, c) ==
      a[1] * (b[2] * c[3] - b[3] * c[2])
    - b[1] * (a[2] * c[3] - a[3] * c[2])
    + c[1] * (a[2] * b[3] - a[3] * b[2])

\* integer homogeneous coordinates of a point with rational x and y
Homogeneous(pt) ==
    <<pt.x.num * pt.y.den, pt.y.num * pt.x.den, pt.x.den * pt.y.den>>

\* the corners of the destination in the order of the contract
destinationCorners(W, H) == <<<<0, 0, 1>>, <<W, 0, 1>>, <<W, H, 1>>, <<0, H, 1>>>>

\* no three of the four points lie on one line
GeneralPosition(P) ==
    /\ Det3(P[1], P[2], P[3]) # 0
    /\ Det3(P[1], P[2], P[4]) # 0
    /\ Det3(P[1], P[3], P[4]) # 0
    /\ Det3(P[2], P[3], P[4]) # 0

\* the matrix that maps (1,0,0), (0,1,0), (0,0,1), (1,1,1) onto P[1], P[2],
\* P[3], P[4] (each up to a factor): its columns are multiples of P[1..3]
\* whose sum is a multiple of P[4]
Frame(P) ==
    LET d1 == Det3(P[4], P[2], P[3])
        d2 == Det3(P[1], P[4], P[3])
        d3 == Det3(P[1], P[2], P[4])
    IN  [i \in 1..3 |-> <<d1 * P[1][i], d2 * P[2][i], d3 * P[3][i]>>]

\* the adjugate of a 3 x 3 matrix (its inverse up to the determinant)
Adjugate(m) ==
    <<<<m[2][2] * m[3][3] - m[2][3] * m[3][2],
        m[1][3] * m[3][2] - m[1][2] * m[3][3],
        m[1][2] * m[2][3] - m[1][3] * m[2][2]>>,
      <<m[2][3] * m[3][1] - m[2][1] * m[3][3],
        m[1][1] * m[3][3] - m[1][3] * m[3][1],
        m[1][3] * m[2][1] - m[1][1] * m[2][3]>>,
      <<m[2][1] * m[3][2] - m[2][2] * m[3][1],
        m[1][2] * m[3][1] - m[1][1] * m[3][2],
        m[1][1] * m[2][2] - m[1][2] * m[2][1]>>>>

MatMul(a, b) ==
    [i \in 1..3 |->
        [j \in 1..3 |-> a[i][1] * b[1][j] + a[i][2] * b[2][j] + a[i][3] * b[3][j]]]

\* m with bottom-right entry > 0 and no common factor in its entries
Normalise(m) ==
    LET g12 == GCD(GCD(Abs(m[1][1]), Abs(m[1][2])), Abs(m[1][3]))
        g22 == GCD(GCD(Abs(m[2][1]), Abs(m[2][2])), Abs(m[2][3]))
        g32 == GCD(GCD(Abs(m[3][1]), Abs(m[3][2])), Abs(m[3][3]))
        g   == GCD(GCD(g12, g22), g32)
        sg  == IF m[3][3] < 0 THEN 0 - g ELSE g
    IN  [i \in 1..3 |-> [j \in 1..3 |-> m[i][j] \div sg]]

NoMatrix == <<<<0, 0, 0>>, <<0, 0, 0>>, <<0, 0, 0>>>>

\* spec 4.3, step 1 and the degenerate cases
perspectiveTransform(points, W, H) ==
    IF Len(points) # 4 THEN [status |-> "MalformedInput", M |-> NoMatrix]
    ELSE IF W <= 0 \/ H <= 0 THEN [status |-> "InvalidDimensions", M |-> NoMatrix]
    ELSE LET P == [k \in 1..4 |-> Homogeneous(points[k])]
             Q == destinationCorners(W, H)
         IN  IF ~GeneralPosition(P)
             THEN [status |-> "UnsolvableTransform", M |-> NoMatrix]
             ELSE LET m == MatMul(Frame(Q), Adjugate(Frame(P)))
                  IN  IF m[3][3] = 0
                      THEN [status |-> "UnsolvableTransform", M |-> NoMatrix]
                      ELSE [status |-> "ok", M |-> Normalise(m)]

\* the y of the positions the four points were clicked at
SourceRows == 0..2

\* the positions the four points were clicked at
SourcePoints == (0..MaxSource) \X SourceRows

\* the size of the destination (the reference uses one fixed size)
Destinations == {[width |-> 2, height |-> 1], [width |-> 2, height |-> 2]}

\* the point a click at p stores on a canvas that shows the image at its
\* natural size (lines 209-218)
clickedPoint(p, id) ==
    [x |-> FromInt(p[1]), y |-> FromInt(p[2]), id |-> id,
     displayX |-> FromInt(p[1]), displayY |-> FromInt(p[2])]

\* an image is loaded and shown at its natural size, four points have been
\* clicked, no correction has been requested yet
InitTransform ==
    /\ imageId = MaxImageId
    /\ originalImageUrl = getImageUrl(imageId, "original")
    /\ processedImageUrl = NullUrl
    /\ \E p1, p2, p3, p4 \in SourcePoints :
          cornerPoints = <<clickedPoint(p1, 0), clickedPoint(p2, 1),
                           clickedPoint(p3, 2), clickedPoint(p4, 3)>>
    /\ isUploading = FALSE
    /\ isProcessing = FALSE
    /\ draggedPoint = Null
    /\ canvasSize = [width |-> MaxSource + 1, height |-> Cardinality(SourceRows)]
    /\ imageSize = [width |-> MaxSource + 1, height |-> Cardinality(SourceRows)]
    /\ uploadRequests = <<>>
    /\ processRequests = <<>>
    /\ toast = "All corners selected!"
    /\ lastEvent = Ev("click", 0, 0, "")
    /\ probe \in [pc : {"ready"}, dest : Destinations,
                  result : {[status |-> "none", M |-> NoMatrix]}]

\* the service computes the transform for the request it received
BackendCompute ==
    /\ processRequests # <<>>
    /\ probe.pc = "ready"
    /\ probe' = [probe EXCEPT
                    !.pc = "computed",
                    !.result = perspectiveTransform(
                                   processRequests[1].corner_points,
                                   probe.dest.width, probe.dest.height)]
    /\ UNCHANGED Session0

\* the service answers: with the processed image when there is a transform,
\* with an error when the input was rejected
BackendResponds ==
    /\ processRequests # <<>>
    /\ probe.pc = "computed"
    /\ IF probe.result.status = "ok"
       THEN correctionSucceeded(1)
       ELSE correctionFailed(1)

NextTransform == requestCorrection \/ BackendCompute \/ BackendResponds

SpecTransform == InitTransform /\ [][NextTransform]_vars

-----------------------------------------------------------------------------
(* Properties of the corner set *)

\* the state of the session that the handlers share, apart from the notification
SessionFields == <<imageId, originalImageUrl, processedImageUrl, cornerPoints,
                   isUploading, isProcessing, draggedPoint, canvasSize,
                   imageSize, uploadRequests, processRequests>>

\* C1: in every reachable state the corner set holds between 0 and 4 points and
\* the ids of its points are exactly 0, ..., count-1, each once.
C1_CornerSetInvariant ==
    /\ Len(cornerPoints) >= 0
    /\ Len(cornerPoints) <= 4
    /\ Ids(cornerPoints) = 0..(Len(cornerPoints) - 1)
    /\ \A i, j \in DOMAIN cornerPoints :
          cornerPoints[i].id = cornerPoints[j].id => i = j

\* C1 witness: a full corner set after clicks, a begin-drag and a drag-move.
C1_Witness ==
    /\ Len(cornerPoints) = 4
    /\ draggedPoint # Null
    /\ lastEvent.type = "mouseMove"

\* C2: a click made when the corner set holds 4 points, or when no image is
\* loaded, changes no field of the session and emits no notification.
C2_AddPointNoOp ==
    [][(/\ lastEvent'.type = "click"
        /\ (Len(cornerPoints) = 4 \/ originalImageUrl = NullUrl))
       => (UNCHANGED SessionFields /\ toast' = NoToast)]_vars

\* C2 witness: a click was handled with 4 points stored (the click that stores
\* the fourth point leaves its notification, this one left none).
C2_Witness ==
    /\ lastEvent.type = "click"
    /\ Len(cornerPoints) = 4
    /\ toast = NoToast

\* C3: a click at (cx, cy) with an image loaded and fewer than 4 points appends
\* one point whose id is the count before the click and whose image-space
\* coordinates are cx * imageWidth / displayWidth and cy * imageHeight /
\* displayHeight (cx and cy themselves while a display dimension is 0); the
\* points stored before are kept as they were, in their order.
C3_AddPointAppends ==
    [][(/\ lastEvent'.type = "click"
        /\ originalImageUrl # NullUrl
        /\ Len(cornerPoints) < 4)
       => LET n  == Len(cornerPoints)
              pt == cornerPoints'[n + 1]
              cx == lastEvent'.x
              cy == lastEvent'.y
          IN  /\ Len(cornerPoints') = n + 1
              /\ SubSeq(cornerPoints', 1, n) = cornerPoints
              /\ pt.id = n
              /\ IF canvasSize.width = 0 \/ canvasSize.height = 0
                 THEN pt.x = FromInt(cx) /\ pt.y = FromInt(cy)
                 ELSE /\ pt.x.num * canvasSize.width
                            = cx * imageSize.width * pt.x.den
                      /\ pt.y.num * canvasSize.height
                            = cy * imageSize.height * pt.y.den]_vars

\* C3 witness: a second point was appended by a click on a measured canvas of
\* a loaded image whose two scales differ.
C3_Witness ==
    /\ lastEvent.type = "click"
    /\ Len(cornerPoints) = 2
    /\ imageSize.width > 0
    /\ canvasSize.width # canvasSize.height
    /\ cornerPoints[2].x # FromInt(lastEvent.x)

\* C4: the selection-complete notification is emitted by a step exactly when
\* that step is a click that takes the count from 3 to 4.
C4_SelectionComplete ==
    [][(toast' = "All corners selected!")
       <=> (/\ lastEvent'.type = "click"
            /\ Len(cornerPoints) = 3
            /\ Len(cornerPoints') = 4)]_vars

\* C4 witness: the notification was emitted.
C4_Witness ==
    /\ toast = "All corners selected!"
    /\ Len(cornerPoints) = 4

\* C5 (as claimed): while the drag of a stored point is in progress, a
\* drag-move to position d sets that point's display coordinates to d and its
\* image-space coordinates to the conversion of d.
C5_DragMovesPoint ==
    [][(/\ lastEvent'.type = "mouseMove"
        /\ draggedPoint \in Ids(cornerPoints))
       => \E i \in DOMAIN cornerPoints' :
             LET d == convertToImageCoordinates(
                          FromInt(lastEvent'.x), FromInt(lastEvent'.y),
                          canvasSize, imageSize)
             IN  /\ cornerPoints'[i].id = draggedPoint
                 /\ cornerPoints'[i].displayX = FromInt(lastEvent'.x)
                 /\ cornerPoints'[i].displayY = FromInt(lastEvent'.y)
                 /\ cornerPoints'[i].x = d.x
                 /\ cornerPoints'[i].y = d.y]_vars

\* C6 (as claimed): a begin-drag records the id, a release clears the recorded
\* id in every state, and a drag-move with no drag in progress changes no point.
C6_DragLifecycle ==
    [][/\ (lastEvent'.type = "mouseDown" => draggedPoint' = lastEvent'.x)
       /\ (lastEvent'.type = "mouseUp" => draggedPoint' = Null)
       /\ (lastEvent'.type = "mouseMove" /\ draggedPoint \notin Ids(cornerPoints)
              => cornerPoints' = cornerPoints)]_vars

\* C7: a drag-move keeps the number of points, every point's id and position
\* in the sequence, every point other than the dragged one as it was, and the
\* processed result and the in-flight flags and requests.
C7_DragFrame ==
    [][lastEvent'.type = "mouseMove"
       => /\ Len(cornerPoints') = Len(cornerPoints)
          /\ \A i \in DOMAIN cornerPoints :
                /\ cornerPoints'[i].id = cornerPoints[i].id
                /\ (cornerPoints[i].id # draggedPoint
                       => cornerPoints'[i] = cornerPoints[i])
          /\ UNCHANGED <<processedImageUrl, isUploading, isProcessing,
                         uploadRequests, processRequests>>]_vars

\* C7 witness: a drag-move was handled by the canvas while the drag of a
\* stored point was in progress and another point was stored.
C7_Witness ==
    /\ lastEvent.type = "mouseMove"
    /\ draggedPoint \in Ids(cornerPoints)
    /\ Len(cornerPoints) >= 2
    /\ CanvasPointerEvents

\* C8: in every state resetSelection yields no points and no processed result,
\* and applied twice it yields the state it yields applied once; its button
\* can be taken in every state with the image panel rendered (any number of
\* points, a request outstanding or not), and the state a Reset step leaves is
\* that state.
C8_ResetIdempotent ==
    /\ LET once  == resetSelection(Session)
           twice == resetSelection(once)
       IN  /\ once.cornerPoints = <<>>
           /\ once.processedImageUrl = NullUrl
           /\ twice = once
    /\ PanelRendered => ENABLED Reset
    /\ lastEvent.type = "reset" =>
          /\ cornerPoints = <<>>
          /\ processedImageUrl = NullUrl
          /\ resetSelection(Session) = Session

\* C8 witness: Reset was taken while a correction request was outstanding.
C8_Witness ==
    /\ lastEvent.type = "reset"
    /\ processRequests # <<>>
    /\ isProcessing

\* C9: in the state a successful upload leaves, the corner set is empty, there
\* is no processed result, and the stored image id is the id the store returned.
C9_UploadEmpties ==
    lastEvent.type = "uploadOk" =>
        /\ cornerPoints = <<>>
        /\ processedImageUrl = NullUrl
        /\ imageId = lastEvent.x
        /\ originalImageUrl = getImageUrl(lastEvent.x, "original")

\* C9 witness: an upload has succeeded.
C9_Witness ==
    /\ lastEvent.type = "uploadOk"
    /\ imageId \in ImageIds
    /\ ~isUploading

\* C10: with display and image sizes all positive, a position converted to
\* image space and back to display space is the position.
C10_RoundTrip ==
    (/\ probe.pc = "canvas"
     /\ probe.cs.width > 0 /\ probe.cs.height > 0
     /\ probe.is.width > 0 /\ probe.is.height > 0)
    => probe.canvas = [x |-> FromInt(probe.x), y |-> FromInt(probe.y)]

\* C10 witness: a round trip of a position off the origin under two scales
\* that differ and are not 1.
C10_Witness ==
    /\ probe.pc = "canvas"
    /\ probe.x > 0 /\ probe.y > 0 /\ probe.x # probe.y
    /\ probe.cs = [width |-> 2, height |-> 1]
    /\ probe.is = [width |-> 1, height |-> 2]
    /\ probe.image # [x |-> FromInt(probe.x), y |-> FromInt(probe.y)]

\* C11 (as claimed): with a display width or a display height of 0, the
\* conversion to image space and the conversion to display space both yield
\* the position they were given, whatever the image size is.
C11_ZeroDisplayIdentity ==
    (probe.pc \in {"image", "canvasOnly"}
        /\ (probe.cs.width = 0 \/ probe.cs.height = 0))
    => /\ probe.pc = "image"
          => probe.image = [x |-> FromInt(probe.x), y |-> FromInt(probe.y)]
       /\ probe.pc = "canvasOnly"
          => probe.canvas = [x |-> FromInt(probe.x), y |-> FromInt(probe.y)]

-----------------------------------------------------------------------------
(* Properties of the correction request *)

\* C12: in every reachable state at most one correction request awaits its
\* response, and while one does the Correct Distortion button cannot be
\* taken, whatever the user has done since the request was issued.
C12_OneInFlight ==
    /\ Len(processRequests) <= 1
    /\ processRequests # <<>> => ~ENABLED requestCorrection

\* C12 witness: with a request outstanding the selection was reset and four
\* points were selected again, so that only the processing flag disables the
\* button.
C12_Witness ==
    /\ Len(processRequests) = 1
    /\ processRequests[1].superseded
    /\ Len(cornerPoints) = 4
    /\ toast = "All corners selected!"

\* C13 (as claimed): the response to a request that was outstanding when the
\* selection was reset or an image was loaded is discarded: the step that
\* handles it leaves the processed result cleared.
C13_LateResultDiscarded ==
    [][(/\ lastEvent'.type = "correctOk"
        /\ Len(processRequests') < Len(processRequests)
        /\ \E i \in DOMAIN processRequests :
              /\ processRequests[i].superseded
              /\ processRequests' = RemoveAt(processRequests, i))
       => processedImageUrl' = NullUrl]_vars

\* C14: a step of processImageDistortion issues a request only with exactly 4
\* points stored, and then exactly one; with any other count it emits the
\* Incomplete-selection notification, issues no request and leaves the points,
\* the processed result and the processing flag as they were.  No other step
\* issues a correction request.
C14_FourPointsOnly ==
    [][/\ Len(processRequests') > Len(processRequests)
          => lastEvent'.type = "correct" /\ Len(cornerPoints) = 4
       /\ lastEvent'.type = "correct"
          => IF Len(cornerPoints) = 4
             THEN /\ Len(processRequests') = Len(processRequests) + 1
                  /\ Len(processRequests'[Len(processRequests')].corner_points) = 4
             ELSE /\ toast' = "Incomplete selection"
                  /\ processRequests' = processRequests
                  /\ cornerPoints' = cornerPoints
                  /\ processedImageUrl' = processedImageUrl
                  /\ isProcessing' = isProcessing]_vars

\* C14 witness: processImageDistortion was called with one to three points
\* stored and emitted the notification.
C14_Witness ==
    /\ lastEvent.type = "correct"
    /\ toast = "Incomplete selection"
    /\ Len(cornerPoints) \in 1..3
    /\ processRequests = <<>>

-----------------------------------------------------------------------------
(* Properties of the upload *)

\* C16: the result of validating a file is InvalidFormat when its type is none
\* of image/jpeg, image/jpg, image/png (whatever its size), else FileTooLarge
\* when its size is greater than 10,485,760 bytes, else acceptance; a file of
\* exactly 10,485,760 bytes of a valid type is accepted.
C16_Validation ==
    probe.pc \in {"validateImageFile", "validateImageFormat"}
    => /\ probe.result =
             IF probe.type # "image/jpeg" /\ probe.type # "image/jpg"
                   /\ probe.type # "image/png"
             THEN "InvalidFormat"
             ELSE IF probe.size > 10485760 THEN "FileTooLarge" ELSE "ok"
       /\ (probe.size = 10485760 /\ probe.type = "image/png")
             => probe.result = "ok"

\* C16 witness: a file of exactly 10,485,760 bytes and a valid type was
\* validated.
C16_Witness ==
    /\ probe.pc = "validateImageFile"
    /\ probe.size = 10485760
    /\ probe.type = "image/jpg"
    /\ probe.result = "ok"

\* C17: no upload request carries a file that validation rejects: every
\* request awaiting its response carries a file of a valid type and of at most
\* 10,485,760 bytes, and the selection of a rejected file leaves no request.
C17_ValidateBeforeUpload ==
    /\ \A i \in DOMAIN uploadRequests :
          /\ uploadRequests[i].type \in {"image/jpeg", "image/jpg", "image/png"}
          /\ uploadRequests[i].size <= 10485760
    /\ (/\ lastEvent.type = "selectFile"
        /\ (lastEvent.s \notin {"image/jpeg", "image/jpg", "image/png"}
               \/ lastEvent.x > 10485760))
       => uploadRequests = <<>> /\ ~isUploading

\* C17 witness: a file of a valid type and one byte too large was selected and
\* rejected.
C17_Witness ==
    /\ lastEvent.type = "selectFile"
    /\ lastEvent.s = "image/png"
    /\ lastEvent.x = 10485761
    /\ toast = "Upload failed"
    /\ uploadRequests = <<>>

\* C18: a step in which an upload attempt fails (the selected file is
\* rejected, or the request fails) leaves the image id, the original-image
\* reference, the points and the processed result as they were.
C18_FailedUploadFrame ==
    [][(\/ lastEvent'.type = "uploadFailed"
        \/ /\ lastEvent'.type = "selectFile"
           /\ (lastEvent'.s \notin {"image/jpeg", "image/jpg", "image/png"}
                  \/ lastEvent'.x > 10485760))
       => UNCHANGED <<imageId, originalImageUrl, cornerPoints,
                      processedImageUrl>>]_vars

\* C18 witness: an upload request has failed and no image is loaded.
C18_Witness ==
    /\ lastEvent.type = "uploadFailed"
    /\ toast = "Upload failed"
    /\ imageId = NoImage
    /\ originalImageUrl = NullUrl

\* C19: the step that handles the failure of a correction request clears the
\* processing flag and leaves the points and the processed result as they
\* were; after it the Reset button is rendered, and the Correct Distortion
\* button is enabled when four points are stored.
C19_FailedCorrection ==
    [][lastEvent'.type = "correctFailed"
       => /\ isProcessing' = FALSE
          /\ cornerPoints' = cornerPoints
          /\ processedImageUrl' = processedImageUrl
          /\ PanelRendered'
          /\ (Len(cornerPoints') = 4 => CorrectButtonEnabled')]_vars

\* C19 witness: a correction request failed with the four points still stored
\* and the result of an earlier correction in place; the button is enabled.
C19_Witness ==
    /\ lastEvent.type = "correctFailed"
    /\ Len(cornerPoints) = 4
    /\ processedImageUrl # NullUrl
    /\ ~isProcessing
    /\ ENABLED requestCorrection

-----------------------------------------------------------------------------
(* Properties of the layout *)

\* C21: a step that handles a change of the display size (a resize, or the
\* load of the image) keeps the number of points and every point's id and
\* image-space x and y, and leaves every point's display coordinates equal to
\* x * displayWidth / imageWidth and y * displayHeight / imageHeight for the
\* new sizes (x and y themselves while the image size is not known).
C21_DisplayDerived ==
    [][lastEvent'.type \in {"resize", "imageLoad"}
       => /\ Len(cornerPoints') = Len(cornerPoints)
          /\ \A i \in DOMAIN cornerPoints :
                LET old == cornerPoints[i]
                    new == cornerPoints'[i]
                IN  /\ new.id = old.id
                    /\ new.x = old.x
                    /\ new.y = old.y
                    /\ IF imageSize'.width = 0 \/ imageSize'.height = 0
                       THEN new.displayX = old.x /\ new.displayY = old.y
                       ELSE /\ new.displayX.num * imageSize'.width * old.x.den
                                 = old.x.num * canvasSize'.width
                                       * new.displayX.den
                            /\ new.displayY.num * imageSize'.height * old.y.den
                                 = old.y.num * canvasSize'.height
                                       * new.displayY.den]_vars

\* C21 witness: a resize to a wider canvas moved the display position of a
\* point that was clicked on the narrower one.
C21_Witness ==
    /\ lastEvent.type = "resize"
    /\ Len(cornerPoints) >= 2
    /\ canvasSize = [width |-> 8, height |-> 4]
    /\ cornerPoints[1].x = Rat(1, 2)
    /\ cornerPoints[1].displayX = FromInt(2)
    /\ cornerPoints[2].displayX = FromInt(1)

-----------------------------------------------------------------------------
(* Properties of the perspective correction *)

-----------------------------------------------------------------------------
(* Properties of the busy flags *)

\* C24: with a transport that eventually answers, the processing flag, once
\* true, eventually becomes false, and the uploading flag, once true,
\* eventually becomes false.
C24_FlagsReleased ==
    /\ isProcessing ~> ~isProcessing
    /\ isUploading ~> ~isUploading

\* C24 witness: a correction request was answered and both flags are false.
C24_Witness ==
    /\ lastEvent.type = "correctOk"
    /\ ~isProcessing
    /\ ~isUploading
    /\ processRequests = <<>>
    /\ uploadRequests = <<>>

\* C25: once the image has been measured, every stored corner point lies
\* inside it: 0 <= x < imageWidth and 0 <= y < imageHeight, also for a point
\* clicked before the image was measured.
C25_InsideImage ==
    (imageSize.width > 0 /\ imageSize.height > 0) =>
        \A i \in DOMAIN cornerPoints :
            /\ ~RatLess(cornerPoints[i].x, 0)
            /\ RatLess(cornerPoints[i].x, imageSize.width)
            /\ ~RatLess(cornerPoints[i].y, 0)
            /\ RatLess(cornerPoints[i].y, imageSize.height)

\* C26: whenever no upload is in flight the upload action is enabled, also
\* after an image has been loaded.
C26_UploadStaysPossible ==
    ~isUploading => ENABLED (\E file \in Files : SelectFile(file))

\* C27: whenever a corner point is stored an image is loaded, its id and the
\* reference of the original both set; and every correction request awaiting
\* its response carries the id of an image.
C27_PointsNeedImage ==
    /\ cornerPoints # <<>> =>
           (imageId \in ImageIds /\ originalImageUrl # NullUrl)
    /\ \A i \in DOMAIN processRequests :
           processRequests[i].image_id \in ImageIds

\* C27 witness: a request was just sent for four stored points and carries the
\* id of the loaded image.
C27_Witness ==
    /\ lastEvent.type = "correct"
    /\ Len(cornerPoints) = MaxCorners
    /\ Len(processRequests) = 1
    /\ processRequests[1].image_id = imageId
    /\ imageId \in ImageIds
    /\ originalImageUrl = getImageUrl(imageId, "original")

\* C28: whenever a processed result is present the corner set holds exactly 4
\* points, and they are the points submitted in the request that produced the
\* result: the response that sets the result answers a request whose
\* corner_points are the stored points, and no step changes the stored points
\* while the result stays.
C28_ResultMatchesSelection ==
    [][processedImageUrl' # NullUrl =>
         /\ Len(cornerPoints') = MaxCorners
         /\ lastEvent'.type = "correctOk" =>
                \E i \in DOMAIN processRequests :
                    /\ processRequests' = RemoveAt(processRequests, i)
                    /\ processRequests[i].corner_points
                           = TransformRequest(imageId', cornerPoints').corner_points
         /\ processedImageUrl # NullUrl =>
                TransformRequest(imageId', cornerPoints').corner_points
                    = TransformRequest(imageId, cornerPoints).corner_points]_vars

\* C29: whenever a drag is in progress the recorded active id is the id of a
\* stored corner point; so with no point stored (after Reset, after an image
\* is loaded) no drag is in progress.
C29_DragTargetStored ==
    draggedPoint # Null => draggedPoint \in Ids(cornerPoints)

\* C30: the processing flag is true exactly while a correction request awaits
\* its response or failure, whatever Reset, click or drag events happen
\* meanwhile.
C30_BusyIffOutstanding ==
    isProcessing <=> processRequests # <<>>

\* C30 witness: Reset Points was clicked while a request is outstanding, and
\* the flag is still true.
C30_Witness ==
    /\ lastEvent.type = "reset"
    /\ cornerPoints = <<>>
    /\ processRequests # <<>>
    /\ isProcessing

=============================================================================
